---- MODULE Spec2Model ----
(***************************************************************************)
(* ChemParse: a parser of chemical formulas (src/src/chemparse.ts).        *)
(*                                                                         *)
(* A formula is a sequence of characters, each character a string.  The    *)
(* ASCII characters stand for themselves; the others are written by name:  *)
(*   "middot"          U+00B7, the middle dot                              *)
(*   "sup+" "sup-"     U+207A, U+207B, superscript plus and minus          *)
(*   "sup0" .. "sup9"  the superscript digits                              *)
(* String indices in the source are 0-based, those of sequences 1-based:   *)
(* positions the program reports are kept 0-based.                         *)
(*                                                                         *)
(* A quantity is the exact value of the number the program computes,       *)
(* written as a fraction <<n, d>> in lowest terms with d > 0.              *)
(***************************************************************************)
EXTENDS Integers, Sequences, FiniteSets, TLC

VARIABLES a, b, segment, op, out

vars == <<a, b, segment, op, out>>

----------------------------------------------------------------------------
(* Character classes of the regular expressions *)

\* \d and [0-9]
DIGITS == {"0", "1", "2", "3", "4", "5", "6", "7", "8", "9"}

\* [A-Z]
UPPER ==
    {"A", "B", "C", "D", "E", "F", "G", "H", "I", "J", "K", "L", "M",
     "N", "O", "P", "Q", "R", "S", "T", "U", "V", "W", "X", "Y", "Z"}

\* [a-z]
LOWER ==
    {"a", "b", "c", "d", "e", "f", "g", "h", "i", "j", "k", "l", "m",
     "n", "o", "p", "q", "r", "s", "t", "u", "v", "w", "x", "y", "z"}

\* \s
WHITESPACE == {" "}

ELEMENT_SYMBOLS == {
    "H", "He", "Li", "Be", "B", "C", "N", "O", "F", "Ne",
    "Na", "Mg", "Al", "Si", "P", "S", "Cl", "Ar", "K", "Ca",
    "Sc", "Ti", "V", "Cr", "Mn", "Fe", "Co", "Ni", "Cu", "Zn",
    "Ga", "Ge", "As", "Se", "Br", "Kr", "Rb", "Sr", "Y", "Zr",
    "Nb", "Mo", "Tc", "Ru", "Rh", "Pd", "Ag", "Cd", "In", "Sn",
    "Sb", "Te", "I", "Xe", "Cs", "Ba", "La", "Ce", "Pr", "Nd",
    "Pm", "Sm", "Eu", "Gd", "Tb", "Dy", "Ho", "Er", "Tm", "Yb",
    "Lu", "Hf", "Ta", "W", "Re", "Os", "Ir", "Pt", "Au", "Hg",
    "Tl", "Pb", "Bi", "Po", "At", "Rn", "Fr", "Ra", "Ac", "Th",
    "Pa", "U", "Np", "Pu", "Am", "Cm", "Bk", "Cf", "Es", "Fm",
    "Md", "No", "Lr", "Rf", "Db", "Sg", "Bh", "Hs", "Mt", "Ds",
    "Rg", "Cn", "Fl", "Lv", "Ts", "Og"
}

\* The symbols in the order Array.prototype.sort() gives them (UTF-16 code units)
SORTED_SYMBOLS == <<
    "Ac", "Ag", "Al", "Am", "Ar", "As", "At", "Au", "B", "Ba",
    "Be", "Bh", "Bi", "Bk", "Br", "C", "Ca", "Cd", "Ce", "Cf",
    "Cl", "Cm", "Cn", "Co", "Cr", "Cs", "Cu", "Db", "Ds", "Dy",
    "Er", "Es", "Eu", "F", "Fe", "Fl", "Fm", "Fr", "Ga", "Gd",
    "Ge", "H", "He", "Hf", "Hg", "Ho", "Hs", "I", "In", "Ir",
    "K", "Kr", "La", "Li", "Lr", "Lu", "Lv", "Md", "Mg", "Mn",
    "Mo", "Mt", "N", "Na", "Nb", "Nd", "Ne", "Ni", "No", "Np",
    "O", "Og", "Os", "P", "Pa", "Pb", "Pd", "Pm", "Po", "Pr",
    "Pt", "Pu", "Ra", "Rb", "Re", "Rf", "Rg", "Rh", "Rn", "Ru",
    "S", "Sb", "Sc", "Se", "Sg", "Si", "Sm", "Sn", "Sr", "Ta",
    "Tb", "Tc", "Te", "Th", "Ti", "Tl", "Tm", "Ts", "U", "V",
    "W", "Xe", "Y", "Yb", "Zn", "Zr"
>>

SUPERSCRIPT_MAP ==
    [c \in {"sup+", "sup-", "sup0", "sup1", "sup2", "sup3", "sup4", "sup5",
            "sup6", "sup7", "sup8", "sup9"} |->
        CASE c = "sup+" -> "+" [] c = "sup-" -> "-" [] c = "sup0" -> "0"
          [] c = "sup1" -> "1" [] c = "sup2" -> "2" [] c = "sup3" -> "3"
          [] c = "sup4" -> "4" [] c = "sup5" -> "5" [] c = "sup6" -> "6"
          [] c = "sup7" -> "7" [] c = "sup8" -> "8" [] c = "sup9" -> "9"]

\* The character class of CHARGE_REGEX's second alternative: the two
\* superscript signs and \d, which under the u flag is [0-9] only
CHARGE_CLASS == {"sup+", "sup-"} \cup DIGITS

----------------------------------------------------------------------------
(* Numbers *)

Abs(x) == IF x < 0 THEN -x ELSE x

RECURSIVE GCD(_, _)
GCD(x, y) == IF y = 0 THEN x ELSE GCD(y, x % y)

\* n / d with the common divisor g taken out
Reduce(n, d, g) == <<n \div g, d \div g>>

Norm(n, d) == Reduce(n, d, GCD(Abs(n), d))

Zero == <<0, 1>>

One == <<1, 1>>

RAdd(p, q) == Norm(p[1] * q[2] + q[1] * p[2], p[2] * q[2])

RSub(p, q) == Norm(p[1] * q[2] - q[1] * p[2], p[2] * q[2])

RMul(p, q) == Norm(p[1] * q[1], p[2] * q[2])

RAbs(p) == <<Abs(p[1]), p[2]>>

RECURSIVE Pow10(_)
Pow10(k) == IF k = 0 THEN 1 ELSE 10 * Pow10(k - 1)

DigitValue(c) ==
    CASE c = "0" -> 0 [] c = "1" -> 1 [] c = "2" -> 2 [] c = "3" -> 3
      [] c = "4" -> 4 [] c = "5" -> 5 [] c = "6" -> 6 [] c = "7" -> 7
      [] c = "8" -> 8 [] c = "9" -> 9

\* The value of a run of decimal digits (0 for the empty run)
RECURSIVE DigitsValue(_)
DigitsValue(s) ==
    IF s = <<>> THEN 0
    ELSE 10 * DigitsValue(SubSeq(s, 1, Len(s) - 1)) + DigitValue(s[Len(s)])

\* The number of consecutive digits of s from index i on
RECURSIVE DigitRun(_, _)
DigitRun(s, i) ==
    IF i <= Len(s) /\ s[i] \in DIGITS THEN 1 + DigitRun(s, i + 1) ELSE 0

\* \d*\.?\d+ at the start of s, which starts with k digits: the length
\* matched, 0 when there is no match
MantissaLenAfter(s, k) ==
    IF k + 1 <= Len(s) /\ s[k + 1] = "." /\ DigitRun(s, k + 2) > 0
    THEN k + 1 + DigitRun(s, k + 2)
    ELSE k

MantissaLen(s) == MantissaLenAfter(s, DigitRun(s, 1))

\* [+-]? after the e that follows a mantissa of length p: the length matched
SignLen(s, p) == IF p + 2 <= Len(s) /\ s[p + 2] \in {"+", "-"} THEN 1 ELSE 0

\* (?:[eE][+-]?\d+)? after a mantissa of length p: the length matched
ExponentLen(s, p) ==
    IF /\ p + 1 <= Len(s)
       /\ s[p + 1] \in {"e", "E"}
       /\ DigitRun(s, p + 2 + SignLen(s, p)) > 0
    THEN 1 + SignLen(s, p) + DigitRun(s, p + 2 + SignLen(s, p))
    ELSE 0

\* The length of the literal whose mantissa has length p
LiteralLen(s, p) == IF p = 0 THEN 0 ELSE p + ExponentLen(s, p)

\* s.match( NUMBER_REGEX ): the length of the literal at the start of s, 0 for
\* no match (a match is never empty)
NUMBER_REGEX(s) == LiteralLen(s, MantissaLen(s))

\* The value of the mantissa of lit, of length p, k digits before the point
MantissaValue(lit, k, p) ==
    IF p > k
    THEN Norm(DigitsValue(SubSeq(lit, 1, k) \o SubSeq(lit, k + 2, p)),
              Pow10(p - k - 1))
    ELSE <<DigitsValue(SubSeq(lit, 1, k)), 1>>

\* The power of 10 of the exponent of lit, of length x, after p characters
ExponentFactor(lit, p, x) ==
    IF x = 0 THEN One
    ELSE IF lit[p + 2] = "-"
         THEN <<1, Pow10(DigitsValue(SubSeq(lit, p + 3, p + x)))>>
         ELSE <<Pow10(DigitsValue(SubSeq(lit, p + 2 + SignLen(lit, p), p + x))), 1>>

FloatOf(lit, k, p) ==
    RMul(MantissaValue(lit, k, p), ExponentFactor(lit, p, ExponentLen(lit, p)))

\* parseFloat of a literal NUMBER_REGEX matched
parseFloat(lit) == FloatOf(lit, DigitRun(lit, 1), MantissaLen(lit))

\* parseInt( s, 10 ) of an optional sign followed by digits
parseInt(s) ==
    IF s[1] = "-" THEN -DigitsValue(Tail(s))
    ELSE IF s[1] = "+" THEN DigitsValue(Tail(s))
    ELSE DigitsValue(s)

----------------------------------------------------------------------------
(* CHARGE_REGEX and the charge annotation *)

NoMatch ==
    [matched |-> FALSE, index |-> -1, g1 |-> <<>>, g2 |-> <<>>, g3 |-> <<>>]

\* \d+ matching the whole of u
IsDigits(u) == u # <<>> /\ \A i \in 1..Len(u) : u[i] \in DIGITS

\* ([+-]?\d+)? matching the whole of t
IsOptSignedDigits(t) ==
    \/ t = <<>>
    \/ t[1] \in {"+", "-"} /\ IsDigits(Tail(t))
    \/ IsDigits(t)

\* The first alternative, \^([+-]?\d+)?([+-])$, matches from index p on
CaretAt(s, p) ==
    /\ s[p] = "^"
    /\ p < Len(s)
    /\ s[Len(s)] \in {"+", "-"}
    /\ IsOptSignedDigits(SubSeq(s, p + 1, Len(s) - 1))

\* The second alternative, ([sup+ sup- \d]+)$, matches from index p on
RunAt(s, p) == \A j \in p..Len(s) : s[j] \in CHARGE_CLASS

\* The indices of s from which CHARGE_REGEX matches
MatchStarts(s) == {p \in 1..Len(s) : CaretAt(s, p) \/ RunAt(s, p)}

\* The match from index p on, the first alternative before the second;
\* index is 0-based, an unmatched group is <<>>
MatchAt(s, p) ==
    IF CaretAt(s, p)
    THEN [matched |-> TRUE, index |-> p - 1,
          g1 |-> SubSeq(s, p + 1, Len(s) - 1),
          g2 |-> <<s[Len(s)]>>, g3 |-> <<>>]
    ELSE [matched |-> TRUE, index |-> p - 1,
          g1 |-> <<>>, g2 |-> <<>>, g3 |-> SubSeq(s, p, Len(s))]

\* The least of a set of indices
Leftmost(starts) == CHOOSE q \in starts : \A r \in starts : q <= r

MatchAmong(s, starts) ==
    IF starts = {} THEN NoMatch ELSE MatchAt(s, Leftmost(starts))

\* s.match( CHARGE_REGEX ): the leftmost match
CHARGE_REGEX(s) == MatchAmong(s, MatchStarts(s))

\* The loop of _parseSuperscriptCharge: the characters SUPERSCRIPT_MAP knows,
\* mapped; every other character is dropped
RECURSIVE MapSuperscripts(_)
MapSuperscripts(s) ==
    IF s = <<>> THEN <<>>
    ELSE (IF s[1] \in DOMAIN SUPERSCRIPT_MAP
          THEN <<SUPERSCRIPT_MAP[s[1]]>> ELSE <<>>)
         \o MapSuperscripts(Tail(s))

\* match[ 1 ] ? parseInt( match[ 1 ], 10 ) : 1, with the sign of match[ 2 ]
SignedNumber(digits, sign) ==
    IF sign = "+"
    THEN (IF digits # <<>> THEN parseInt(digits) ELSE 1)
    ELSE -(IF digits # <<>> THEN parseInt(digits) ELSE 1)

\* normal.match( /^(\d*)([+-])$/ ) and the number of the match: <<n>>, or
\* <<>> for undefined
SuperscriptNumber(normal) ==
    IF normal = <<>> THEN <<>>
    ELSE IF /\ normal[Len(normal)] \in {"+", "-"}
            /\ \A i \in 1..(Len(normal) - 1) : normal[i] \in DIGITS
         THEN <<SignedNumber(SubSeq(normal, 1, Len(normal) - 1),
                             normal[Len(normal)])>>
         ELSE <<>>

_parseSuperscriptCharge(s) ==
    IF s = <<>> THEN <<>> ELSE SuperscriptNumber(MapSuperscripts(s))

\* The caret branch of parse: the charge of a match of the first alternative
CaretCharge(m) == <<SignedNumber(m.g1, m.g2[1])>>

\* The charge and the mainFormula parse has after the match m
ChargeOfMatch(s, m) ==
    IF ~m.matched THEN [charge |-> <<>>, mainFormula |-> s]
    ELSE IF m.g1 # <<>> \/ m.g2 # <<>>
         THEN [charge |-> CaretCharge(m),
               mainFormula |-> SubSeq(s, 1, m.index)]
         ELSE IF m.g3 # <<>>
              THEN [charge |-> _parseSuperscriptCharge(m.g3),
                    mainFormula |-> SubSeq(s, 1, m.index)]
              ELSE [charge |-> <<>>, mainFormula |-> s]

\* The charge extraction of parse: the local charge and the mainFormula
\* that goes on to the split
ExtractCharge(s) == ChargeOfMatch(s, CHARGE_REGEX(s))

----------------------------------------------------------------------------
(* Normalisation and the split into parts *)

\* .replace( /\s+/g, '' )
StripWhitespace(s) == SelectSeq(s, LAMBDA c : c \notin WHITESPACE)

\* .replace( /([0-9]),([0-9])/g, '$1.$2' ): matches do not overlap
RECURSIVE DecimalCommas(_)
DecimalCommas(s) ==
    IF Len(s) >= 3 /\ s[1] \in DIGITS /\ s[2] = "," /\ s[3] \in DIGITS
    THEN <<s[1], ".", s[3]>> \o DecimalCommas(SubSeq(s, 4, Len(s)))
    ELSE IF s = <<>> THEN <<>>
    ELSE <<s[1]>> \o DecimalCommas(Tail(s))

\* .replace( /,/g, '' )
RemoveCommas(s) == SelectSeq(s, LAMBDA c : c # ",")

Normalize(s) == RemoveCommas(DecimalCommas(StripWhitespace(s)))

\* UnifySeparators that leaves the underscore alone
UnifySeparatorsDotOnly(s) == s

\* .replace( /_|\u00B7/g, middot )
UnifySeparators(s) == [i \in 1..Len(s) |-> IF s[i] = "_" THEN "middot" ELSE s[i]]

\* .split( 'middot' ): cur is the piece being read
RECURSIVE SplitFrom(_, _)
SplitFrom(s, cur) ==
    IF s = <<>> THEN <<cur>>
    ELSE IF s[1] = "middot" THEN <<cur>> \o SplitFrom(Tail(s), <<>>)
    ELSE SplitFrom(Tail(s), Append(cur, s[1]))

\* The parts of mainFormula, the empty ones filtered out
Parts(s) == SelectSeq(SplitFrom(UnifySeparators(s), <<>>), LAMBDA p : Len(p) > 0)

----------------------------------------------------------------------------
(* Element counts and the outcome of a call *)

\* {}: an object with no own property
EmptyMap == [k \in {} |-> Zero]

\* m[ el ] || 0
Get(m, el) == IF el \in DOMAIN m THEN m[el] ELSE Zero

\* m[ el ] = ( m[ el ] || 0 ) + q
AddTo(m, el, q) ==
    [k \in DOMAIN m \cup {el} |-> IF k = el THEN RAdd(Get(m, el), q) ELSE m[k]]

\* for ( [ el, cnt ] of Object.entries( from ) )
\*     into[ el ] = ( into[ el ] || 0 ) + cnt * factor
MergeScaled(into, from, factor) ==
    [k \in DOMAIN into \cup DOMAIN from |->
        IF k \in DOMAIN from THEN RAdd(Get(into, k), RMul(from[k], factor))
        ELSE into[k]]

\* A call returns v
Return(v) == [raised |-> FALSE, error |-> "none", pos |-> -1, value |-> v]

\* A call throws: kind names the error, pos the position its message
\* reports (-1 when it reports none)
Throw(kind, pos) ==
    [raised |-> TRUE, error |-> kind, pos |-> pos, value |-> EmptyMap]

----------------------------------------------------------------------------
(* _parseCore: the scan of one segment *)

OPENING == {"(", "[", "{"}

CLOSING == {")", "]", "}"}

\* The number of consecutive lowercase letters of s from index i on
RECURSIVE LowerRun(_, _)
LowerRun(s, i) ==
    IF i <= Len(s) /\ s[i] \in LOWER THEN 1 + LowerRun(s, i + 1) ELSE 0

\* str.slice( i, j ) of letters as one symbol
RECURSIVE Join(_)
Join(s) == IF Len(s) = 1 THEN s[1] ELSE s[1] \o Join(Tail(s))

\* j after the inner while loop: the 0-based end of the candidate symbol
\* that starts at the 0-based i
SymbolEnd(s, i) == i + 1 + LowerRun(s, i + 2)

\* The candidate symbol at i: the uppercase letter and the lowercase
\* letters that follow it
SymbolAt(s, i) == Join(SubSeq(s, i + 1, SymbolEnd(s, i)))

\* The literal of length n at the 1-based index p of s as a number, 1 when
\* there is none
LiteralValue(s, p, n) ==
    IF n > 0 THEN parseFloat(SubSeq(s, p, p + n - 1)) ELSE One

\* The state of the scan before the loop: the stack [ {} ] and i = 0
CoreInit == [i |-> 0, stack |-> <<EmptyMap>>, error |-> "none", pos |-> -1]

\* CoreOpen without the push
CoreOpenNoPush(str, st) == [st EXCEPT !.i = @ + 1]

\* An opening bracket: push
CoreOpen(str, st) == [st EXCEPT !.stack = Append(@, EmptyMap), !.i = @ + 1]

\* The pop of the top of the stack, merged without a multiplier
PopUnscaled(str, st, n) ==
    IF Len(st.stack) = 1
    THEN [st EXCEPT !.i = st.i + 1 + n, !.error = "UnmatchedClosingBracket",
                    !.pos = st.i + n]
    ELSE [st EXCEPT !.i = st.i + 1 + n,
                    !.stack = [SubSeq(@, 1, Len(@) - 1) EXCEPT ![Len(@) - 1] =
                                  MergeScaled(@, st.stack[Len(st.stack)], One)]]

\* CoreClose with the multiplier read and skipped but not applied
CoreCloseUnscaled(str, st) ==
    PopUnscaled(str, st, NUMBER_REGEX(SubSeq(str, st.i + 2, Len(str))))

\* The closing bracket at i with a multiplier of n characters after it: i
\* moves past both, then the error at depth 1 or the pop and the merge
PopScaled(str, st, n) ==
    IF Len(st.stack) = 1
    THEN [st EXCEPT !.i = st.i + 1 + n, !.error = "UnmatchedClosingBracket",
                    !.pos = st.i + n]
    ELSE [st EXCEPT !.i = st.i + 1 + n,
                    !.stack = [SubSeq(@, 1, Len(@) - 1) EXCEPT ![Len(@) - 1] =
                                  MergeScaled(@, st.stack[Len(st.stack)],
                                              LiteralValue(str, st.i + 2, n))]]

\* A closing bracket: read the multiplier, then pop and merge
CoreClose(str, st) ==
    PopScaled(str, st, NUMBER_REGEX(SubSeq(str, st.i + 2, Len(str))))

\* AddCount without the catalog check
AddCountUnchecked(str, st, j, n) ==
    [st EXCEPT !.i = j + n,
               !.stack = [@ EXCEPT ![Len(@)] =
                             AddTo(@, SymbolAt(str, st.i),
                                   LiteralValue(str, j + 1, n))]]

\* CoreElement without the catalog check
CoreElementUnchecked(str, st) ==
    AddCountUnchecked(str, st, SymbolEnd(str, st.i),
        NUMBER_REGEX(SubSeq(str, SymbolEnd(str, st.i) + 1, Len(str))))

\* The symbol that ends at j with a count of n characters after it: i
\* moves past both, then the catalog check and the add to the top
AddCount(str, st, j, n) ==
    IF SymbolAt(str, st.i) \notin ELEMENT_SYMBOLS
    THEN [st EXCEPT !.i = j + n, !.error = "UnknownElementSymbol"]
    ELSE [st EXCEPT !.i = j + n,
                    !.stack = [@ EXCEPT ![Len(@)] =
                                  AddTo(@, SymbolAt(str, st.i),
                                        LiteralValue(str, j + 1, n))]]

\* An uppercase letter: the symbol, its count, the catalog check, the add
CoreElement(str, st) ==
    AddCount(str, st, SymbolEnd(str, st.i),
        NUMBER_REGEX(SubSeq(str, SymbolEnd(str, st.i) + 1, Len(str))))

\* One turn of the while loop, at str[ i ]
CoreStep(str, st) ==
    IF str[st.i + 1] \in OPENING THEN CoreOpen(str, st)
    ELSE IF str[st.i + 1] \in CLOSING THEN CoreClose(str, st)
    ELSE IF str[st.i + 1] \in UPPER THEN CoreElement(str, st)
    ELSE [st EXCEPT !.error = "InvalidCharacter", !.pos = st.i]

\* The while loop, left by a throw or at the end of str
RECURSIVE CoreRun(_, _)
CoreRun(str, st) ==
    IF st.error # "none" \/ st.i >= Len(str) THEN st
    ELSE CoreRun(str, CoreStep(str, st))

\* What _parseCore throws or returns when the loop is left in state st
CoreResult(st) ==
    IF st.error # "none" THEN Throw(st.error, st.pos)
    ELSE IF Len(st.stack) # 1 THEN Throw("UnmatchedOpeningBracket", -1)
    ELSE Return(st.stack[1])

_parseCore(str) == CoreResult(CoreRun(str, CoreInit))

\* One turn of the while loop if the loop is still running in state st
CoreTurn(str, st) ==
    IF st.error # "none" \/ st.i >= Len(str) THEN st ELSE CoreStep(str, st)

\* The state of the scan of str after n turns of the while loop, or the
\* state in which the loop was left before that
RECURSIVE ScanAfter(_, _)
ScanAfter(str, n) ==
    IF n = 0 THEN CoreInit ELSE CoreTurn(str, ScanAfter(str, n - 1))

----------------------------------------------------------------------------
(* The public methods *)

\* The loop of parse over the parts, from part k on
RECURSIVE MergeParts(_, _, _)

\* The counts of part k merged into total, scaled, and the loop goes on; a
\* throw of _parseCore or of the second catalog check ends it
MergeCounts(parts, k, total, leadingCoef, partCounts) ==
    IF partCounts.raised THEN partCounts
    ELSE IF \E el \in DOMAIN partCounts.value : el \notin ELEMENT_SYMBOLS
         THEN Throw("UnknownElementSymbol", -1)
         ELSE MergeParts(parts, k + 1,
                  MergeScaled(total, partCounts.value, leadingCoef))

\* Part k, whose leading literal has n characters: a part that is only
\* the literal is skipped
MergePart(parts, k, total, n) ==
    IF n > 0 /\ n = Len(parts[k]) THEN MergeParts(parts, k + 1, total)
    ELSE MergeCounts(parts, k, total, LiteralValue(parts[k], 1, n),
                     _parseCore(SubSeq(parts[k], n + 1, Len(parts[k]))))

MergeParts(parts, k, total) ==
    IF k > Len(parts) THEN Return(total)
    ELSE MergePart(parts, k, total, NUMBER_REGEX(parts[k]))

\* parse returns total: the local charge is not part of what it returns
parse(formula) ==
    IF ~formula.isString THEN Throw("TypeError", -1)
    ELSE MergeParts(Parts(ExtractCharge(Normalize(formula.chars)).mainFormula),
                    1, EmptyMap)

\* validate without the catch
validateNoCatch(formula) == [parse(formula) EXCEPT !.value = TRUE]

\* The try and the catch of validate around the outcome r of parse
TrueUnlessRaised(r) == IF r.raised THEN Return(FALSE) ELSE Return(TRUE)

\* try { parse } catch { return false }
validate(formula) == TrueUnlessRaised(parse(formula))

\* Object.keys( m ).sort()
SortedKeys(m) == SelectSeq(SORTED_SYMBOLS, LAMBDA k : k \in DOMAIN m)

\* The decimal exponent of compare's tolerance, 1e-12
TOLERANCE_EXP == 12

\* n / d > 10^-k, for n >= 0 and d > 0, without computing 10^k
RECURSIVE ExceedsPow10(_, _, _)
ExceedsPow10(n, d, k) ==
    IF n > d THEN TRUE
    ELSE IF k = 0 \/ n = 0 THEN FALSE
    ELSE ExceedsPow10(10 * n, d, k - 1)

\* Math.abs( x - y ) > 1e-12
ExceedsTolerance(x, y) ==
    ExceedsPow10(RAbs(RSub(x, y))[1], RSub(x, y)[2], TOLERANCE_EXP)

\* The loop of compare over the sorted keys
SameEntries(pa, pb, keysA, keysB) ==
    \A i \in 1..Len(keysA) :
        ~ \/ keysA[i] # keysB[i]
          \/ ExceedsTolerance(pa[keysA[i]], pb[keysB[i]])

\* The loop of compare, its index not checked against keysB
SameEntriesOfFirst(pa, pb, keysA, keysB) ==
    \A i \in 1..Len(keysA) :
        /\ i <= Len(keysB)
        /\ keysA[i] = keysB[i]
        /\ ~ExceedsTolerance(pa[keysA[i]], pb[keysB[i]])

CompareParsedNoLengthCheck(ra, rb) ==
    IF ra.raised \/ rb.raised THEN Return(FALSE)
    ELSE Return(SameEntriesOfFirst(ra.value, rb.value,
                    SortedKeys(ra.value), SortedKeys(rb.value)))

\* compare without the comparison of the numbers of keys
compareNoLengthCheck(fa, fb) == CompareParsedNoLengthCheck(parse(fa), parse(fb))

\* The body of compare's try for the outcomes of the two calls of parse, and
\* its catch
CompareParsed(ra, rb) ==
    IF ra.raised \/ rb.raised THEN Return(FALSE)
    ELSE IF Len(SortedKeys(ra.value)) # Len(SortedKeys(rb.value))
         THEN Return(FALSE)
         ELSE Return(SameEntries(ra.value, rb.value,
                         SortedKeys(ra.value), SortedKeys(rb.value)))

compare(fa, fb) == CompareParsed(parse(fa), parse(fb))

\* The entries of diff over the keys allKeys
DiffEntries(pa, pb, allKeys) ==
    [el \in allKeys |-> RSub(Get(pa, el), Get(pb, el))]

DiffParsedPruned(ra, rb) ==
    IF ra.raised THEN ra
    ELSE IF rb.raised THEN rb
    ELSE Return(DiffEntries(ra.value, rb.value,
             {el \in DOMAIN ra.value \cup DOMAIN rb.value :
                 Get(ra.value, el) # Get(rb.value, el)}))

\* diff that leaves out the entries that are 0
diffPruned(fa, fb) == DiffParsedPruned(parse(fa), parse(fb))

\* diff for the outcomes of the two calls of parse: a throw of either goes
\* on to the caller
DiffParsed(ra, rb) ==
    IF ra.raised THEN ra
    ELSE IF rb.raised THEN rb
    ELSE Return(DiffEntries(ra.value, rb.value,
                            DOMAIN ra.value \cup DOMAIN rb.value))

diff(fa, fb) == DiffParsed(parse(fa), parse(fb))

----------------------------------------------------------------------------
(* The arguments of the calls *)

\* The formulas of the README and of the specification's examples
\* "CH3COO^-"
F_CH3COO == <<"C", "H", "3", "C", "O", "O", "^", "-">>

\* "Fe(CN)6^3-"
F_FeCN6 == <<"F", "e", "(", "C", "N", ")", "6", "^", "3", "-">>

\* "C1.5O3"
F_C15O3 == <<"C", "1", ".", "5", "O", "3">>

\* "H2e-1O1e-1"
F_H2e1O1e1 == <<"H", "2", "e", "-", "1", "O", "1", "e", "-", "1">>

\* "K4[Fe(CN)6]"
F_K4FeCN6 == <<"K", "4", "[", "F", "e", "(", "C", "N", ")", "6", "]">>

\* "CuSO4(middot)5H2O"
F_CuSO4 == <<"C", "u", "S", "O", "4", "middot", "5", "H", "2", "O">>

\* "Xx2O"
F_Xx2O == <<"X", "x", "2", "O">>

\* "H2O"
F_H2O == <<"H", "2", "O">>

\* "OH2"
F_OH2 == <<"O", "H", "2">>

\* "SO4(sup2)(sup-)"
F_SO4sup == <<"S", "O", "4", "sup2", "sup-">>

\* "Ca(OH)2]"
F_CaOH2close == <<"C", "a", "(", "O", "H", ")", "2", "]">>

\* "Ca(OH2"
F_CaOH2open == <<"C", "a", "(", "O", "H", "2">>

\* "NH4^+"
F_NH4 == <<"N", "H", "4", "^", "+">>

\* "CCl3_CH(OH)2"
F_CCl3 == <<"C", "C", "l", "3", "_", "C", "H", "(", "O", "H", ")", "2">>

\* "He2O"
F_He2O == <<"H", "e", "2", "O">>

\* "2,5 H2O(middot)Na,Cl"
F_commas == <<"2", ",", "5", " ", "H", "2", "O", "middot", "N", "a", ",", "C", "l">>

\* "C6H12O6"
F_C6H12O6 == <<"C", "6", "H", "1", "2", "O", "6">>

\* "5(middot)H2O"
F_5H2O == <<"5", "middot", "H", "2", "O">>

\* "HO"
F_HO == <<"H", "O">>

\* "OH"
F_OH == <<"O", "H">>

\* "HOH"
F_HOH == <<"H", "O", "H">>

\* "((H2)2O)2^-"
F_nested == <<"(", "(", "H", "2", ")", "2", "O", ")", "2", "^", "-">>

\* "H{O(H].5}2O"
F_mixed == <<"H", "{", "O", "(", "H", "]", ".", "5", "}", "2", "O">>

\* "H2(sup-)"
F_H2sup == <<"H", "2", "sup-">>

\* "H" and "HH"
F_H == <<"H">>

F_HH == <<"H", "H">>

\* "2(middot)Na2O__.5H2O"
F_parts ==
    <<"2", "middot", "N", "a", "2", "O", "_", "_", ".", "5", "H", "2", "O">>

\* "H^-3+": a sign before the digits, which ([+-]?\d+) of CHARGE_REGEX takes
F_caretSigned == <<"H", "^", "-", "3", "+">>

\* "H^0+": the digits of the annotation are 0
F_caretZero == <<"H", "^", "0", "+">>

\* "H2O(sup+)(sup-)": a valid formula, then a superscript plus and minus
F_H2Osigns == <<"H", "2", "O", "sup+", "sup-">>

EXAMPLES ==
    {F_CH3COO, F_FeCN6, F_C15O3, F_H2e1O1e1, F_K4FeCN6, F_CuSO4, F_Xx2O,
     F_H2O, F_OH2, F_SO4sup, F_CaOH2close, F_CaOH2open, F_NH4, F_CCl3,
     F_He2O, F_commas, F_C6H12O6, F_5H2O, F_HO, F_OH, F_HOH, F_nested,
     F_mixed, F_H2sup, F_H, F_HH, F_parts, F_caretSigned, F_caretZero,
     F_H2Osigns}

\* The pieces the other formulas are made of
PIECES ==
    {<<"H">>, <<"O">>, <<"x">>, <<"2">>, <<".">>, <<"(">>, <<")">>, <<"]">>,
     <<"middot">>, <<"_">>, <<"^">>, <<"-">>, <<"sup-">>, <<"sup2">>,
     <<")", "2">>}

\* The pieces of the formulas that are compared pairwise
PAIR_PIECES == {<<"H">>, <<"O">>, <<"2">>, <<"(">>}

\* The longest formula made of pieces, in pieces
MaxPieces == 3

\* The same for the formulas compared pairwise
MaxPairPieces == 2

\* The concatenations of at most n pieces
RECURSIVE Concats(_, _)
Concats(pieces, n) ==
    IF n = 0 THEN {<<>>}
    ELSE LET shorter == Concats(pieces, n - 1)
         IN  shorter \cup {s \o q : s \in shorter, q \in pieces}

Text(s) == [isString |-> TRUE, chars |-> s]

\* An argument that is no string (the number 123)
NotText == [isString |-> FALSE, chars |-> <<>>]

PairInputs ==
    {Text(s) : s \in EXAMPLES \cup Concats(PAIR_PIECES, MaxPairPieces)}
        \cup {NotText}

Inputs ==
    {Text(s) : s \in EXAMPLES \cup Concats(PIECES, MaxPieces)} \cup PairInputs

\* A part without its leading literal
PartBody(part) == SubSeq(part, NUMBER_REGEX(part) + 1, Len(part))

\* The parts without their leading literals, but for those nothing is left of
BodiesOf(parts) == {PartBody(parts[k]) : k \in 1..Len(parts)} \ {<<>>}

\* The segments parse hands to _parseCore for the formula s
Segments(s) == BodiesOf(Parts(ExtractCharge(Normalize(s)).mainFormula))

----------------------------------------------------------------------------
(* The calls: a and b are the arguments, op the method called last, out   *)
(* its outcome, segment the argument of _parseCore                        *)

Init ==
    /\ a \in Inputs
    /\ b \in (IF a \in PairInputs THEN PairInputs ELSE {a})
    /\ segment = <<>>
    /\ op = "none"
    /\ out = Return(EmptyMap)

Parse ==
    /\ op' = "parse"
    /\ out' = parse(a)
    /\ segment' = <<>>
    /\ UNCHANGED <<a, b>>

\* A call of _parseCore that parse( a ) makes
ParseCore ==
    /\ a.isString
    /\ \E s \in Segments(a.chars) :
          /\ segment' = s
          /\ out' = _parseCore(s)
    /\ op' = "_parseCore"
    /\ UNCHANGED <<a, b>>

Validate ==
    /\ op' = "validate"
    /\ out' = validate(a)
    /\ segment' = <<>>
    /\ UNCHANGED <<a, b>>

Compare ==
    /\ op' = "compare"
    /\ out' = compare(a, b)
    /\ segment' = <<>>
    /\ UNCHANGED <<a, b>>

Diff ==
    /\ op' = "diff"
    /\ out' = diff(a, b)
    /\ segment' = <<>>
    /\ UNCHANGED <<a, b>>

Next == Parse \/ ParseCore \/ Validate \/ Compare \/ Diff

Spec == Init /\ [][Next]_vars

----------------------------------------------------------------------------
(* The tokens of a segment, as the claims speak of them *)

\* The literal of s at the 1-based index p as a number, 1 when none is there
LiteralAt(s, p) ==
    LiteralValue(s, p, NUMBER_REGEX(SubSeq(s, p, Len(s))))

\* The 0-based positions, from i on, at which a token of s starts: a
\* bracket (a closing one with its multiplier) or a symbol with its count
RECURSIVE TokenStarts(_, _)
TokenStarts(s, i) ==
    IF i >= Len(s) THEN {}
    ELSE IF s[i + 1] \in OPENING THEN {i} \cup TokenStarts(s, i + 1)
    ELSE IF s[i + 1] \in CLOSING
         THEN {i} \cup TokenStarts(s,
                  i + 1 + NUMBER_REGEX(SubSeq(s, i + 2, Len(s))))
    ELSE IF s[i + 1] \in UPPER
         THEN {i} \cup TokenStarts(s,
                  SymbolEnd(s, i)
                    + NUMBER_REGEX(SubSeq(s, SymbolEnd(s, i) + 1, Len(s))))
    ELSE {}

ElementTokens(s) == {p \in TokenStarts(s, 0) : s[p + 1] \in UPPER}

\* Opening minus closing brackets among the tokens from o to c
Balance(s, o, c) ==
    Cardinality({q \in TokenStarts(s, 0) : o <= q /\ q <= c /\ s[q + 1] \in OPENING})
  - Cardinality({q \in TokenStarts(s, 0) : o <= q /\ q <= c /\ s[q + 1] \in CLOSING})

\* The closing brackets that may close the group opened at o
Closers(s, o) ==
    {c \in TokenStarts(s, 0) : c > o /\ s[c + 1] \in CLOSING /\ Balance(s, o, c) = 0}

\* The closing bracket of the group opened at o
CloseOf(s, o) == CHOOSE c \in Closers(s, o) : \A e \in Closers(s, o) : c <= e

\* The groups that enclose the token at p, by their opening brackets
Enclosing(s, p) ==
    {o \in TokenStarts(s, 0) :
        /\ s[o + 1] \in OPENING
        /\ o < p
        /\ Closers(s, o) # {}
        /\ CloseOf(s, o) > p}

\* The product of the multipliers of the groups opened at the positions S
RECURSIVE MultiplierProduct(_, _)
MultiplierProduct(s, S) ==
    IF S = {} THEN One
    ELSE LET o == CHOOSE x \in S : TRUE
         IN  RMul(LiteralAt(s, CloseOf(s, o) + 2), MultiplierProduct(s, S \ {o}))

\* The sum over the occurrences T of count times enclosing multipliers
RECURSIVE OccurrenceSum(_, _)
OccurrenceSum(s, T) ==
    IF T = {} THEN Zero
    ELSE LET p == CHOOSE x \in T : TRUE
         IN  RAdd(RMul(LiteralAt(s, SymbolEnd(s, p) + 1),
                       MultiplierProduct(s, Enclosing(s, p))),
                  OccurrenceSum(s, T \ {p}))

\* The value of the property charge of a returned object: <<>> is undefined
ChargeOf(v) == IF "charge" \in DOMAIN v THEN <<v["charge"]>> ELSE <<>>

\* The formula s carries no charge annotation at all
NoAnnotation(s) == \A i \in 1..Len(s) : s[i] \notin {"^"} \cup DOMAIN SUPERSCRIPT_MAP

----------------------------------------------------------------------------
(* The claims *)

\* C1: the value parse returns for an accepted text formula carries the
\* charge extracted from the trailing annotation (none when there is no
\* annotation) together with the quantities; parse("CH3COO^-") has charge
\* -1 and quantities {C:2, H:3, O:2}, parse("Fe(CN)6^3-") has charge -3.
C1_ParseCarriesCharge ==
    (op = "parse" /\ a.isString /\ ~out.raised) =>
        /\ ChargeOf(out.value) = ExtractCharge(Normalize(a.chars)).charge
        /\ a.chars = F_CH3COO =>
              /\ ChargeOf(out.value) = <<-1>>
              /\ \A k \in {"C", "H", "O"} : k \in DOMAIN out.value
              /\ out.value["C"] = <<2, 1>>
              /\ out.value["H"] = <<3, 1>>
              /\ out.value["O"] = <<2, 1>>
        /\ a.chars = F_FeCN6 => ChargeOf(out.value) = <<-3>>

\* C2: in a formula with no charge annotation the charge extraction removes
\* nothing, so a literal after the last symbol or closing bracket counts as
\* a literal anywhere else: parse("C1.5O3") is {C:1.5, O:3} and
\* parse("H2e-1O1e-1") is {H:0.2, O:0.1}.
C2_NoAnnotationNothingRemoved ==
    (op = "parse" /\ a.isString /\ NoAnnotation(a.chars)) =>
        /\ out = MergeParts(Parts(Normalize(a.chars)), 1, EmptyMap)
        /\ a.chars = F_C15O3 =>
              /\ ~out.raised
              /\ out.value = [k \in {"C", "O"} |->
                                 IF k = "C" THEN <<3, 2>> ELSE <<3, 1>>]
        /\ a.chars = F_H2e1O1e1 =>
              /\ ~out.raised
              /\ out.value = [k \in {"H", "O"} |->
                                 IF k = "H" THEN <<1, 5>> ELSE <<1, 10>>]

\* C3: for every segment _parseCore accepts, the quantity of each element is
\* the sum over its occurrences of the occurrence's count times the product
\* of the multipliers of the bracket groups that enclose it (1 for a group
\* no literal follows); "K4[Fe(CN)6]" gives {K:4, Fe:1, C:6, N:6}.
C3_GroupMultipliers ==
    (op = "_parseCore" /\ ~out.raised) =>
        /\ DOMAIN out.value = {SymbolAt(segment, p) : p \in ElementTokens(segment)}
        /\ \A el \in DOMAIN out.value :
              out.value[el] =
                  OccurrenceSum(segment,
                      {p \in ElementTokens(segment) : SymbolAt(segment, p) = el})
        /\ segment = F_K4FeCN6 =>
              out.value = [k \in {"K", "Fe", "C", "N"} |->
                              CASE k = "K" -> <<4, 1>> [] k = "Fe" -> <<1, 1>>
                                [] k = "C" -> <<6, 1>> [] k = "N" -> <<6, 1>>]

\* C3 witness: _parseCore has accepted a segment with a group inside a
\* group, both followed by a multiplier other than 1
C3_Witness ==
    /\ op = "_parseCore"
    /\ ~out.raised
    /\ \E p \in ElementTokens(segment) :
          /\ Cardinality(Enclosing(segment, p)) >= 2
          /\ \A o \in Enclosing(segment, p) :
                LiteralAt(segment, CloseOf(segment, o) + 2) # One

\* The hydrate separators
SEPARATORS == {"middot", "_"}

\* The segments of s as index pairs: the maximal runs without a separator
SegmentRuns(s) ==
    {r \in (1..Len(s)) \X (1..Len(s)) :
        /\ r[1] <= r[2]
        /\ \A k \in r[1]..r[2] : s[k] \notin SEPARATORS
        /\ r[1] = 1 \/ s[r[1] - 1] \in SEPARATORS
        /\ r[2] = Len(s) \/ s[r[2] + 1] \in SEPARATORS}

\* The coefficient of the segment r of s: its leading literal, else 1
RunCoefficient(s, r) == LiteralAt(SubSeq(s, r[1], r[2]), 1)

\* The segment r of s without its leading literal
RunBody(s, r) ==
    LET seg == SubSeq(s, r[1], r[2])
    IN  SubSeq(seg, NUMBER_REGEX(seg) + 1, Len(seg))

\* The sum over the segments R of s of coefficient times the quantity
\* the Segment Parser gives for el
RECURSIVE SegmentSum(_, _, _)
SegmentSum(s, R, el) ==
    IF R = {} THEN Zero
    ELSE LET r == CHOOSE x \in R : TRUE
         IN  RAdd(RMul(RunCoefficient(s, r),
                       Get(_parseCore(RunBody(s, r)).value, el)),
                  SegmentSum(s, R \ {r}, el))

\* C4: parse splits the charge-stripped formula into non-empty segments on
\* the separators (middle dot and underscore alike), takes each segment's
\* leading literal as its coefficient, and returns for every element the sum
\* over the segments of coefficient times the Segment Parser's quantity; a
\* segment that is only a literal contributes nothing; it fails when a
\* segment fails. parse("CuSO4(middot)5H2O") is {Cu:1, S:1, O:9, H:10}.
C4_SegmentsAndCoefficients ==
    (op = "parse" /\ a.isString) =>
        LET s == ExtractCharge(Normalize(a.chars)).mainFormula
            R == {r \in SegmentRuns(s) : RunBody(s, r) # <<>>}
        IN  /\ out.raised <=> \E r \in R : _parseCore(RunBody(s, r)).raised
            /\ ~out.raised =>
                  /\ DOMAIN out.value =
                        UNION {DOMAIN _parseCore(RunBody(s, r)).value : r \in R}
                  /\ \A el \in DOMAIN out.value :
                        out.value[el] = SegmentSum(s, R, el)
            /\ a.chars = F_CuSO4 =>
                  out.value = [k \in {"Cu", "S", "O", "H"} |->
                                  CASE k = "Cu" -> <<1, 1>> [] k = "S" -> <<1, 1>>
                                    [] k = "O" -> <<9, 1>> [] k = "H" -> <<10, 1>>]

\* C4 witness: parse has returned for a formula with a segment that is
\* only a literal, an empty piece between two separators, and two segments
\* that share an element, one with a coefficient other than 1
C4_Witness ==
    /\ op = "parse"
    /\ a.isString
    /\ ~out.raised
    /\ LET s == ExtractCharge(Normalize(a.chars)).mainFormula
       IN  /\ \E r \in SegmentRuns(s) : RunBody(s, r) = <<>>
           /\ \E i \in 1..(Len(s) - 1) :
                 s[i] \in SEPARATORS /\ s[i + 1] \in SEPARATORS
           /\ \E r \in SegmentRuns(s) :
                 RunBody(s, r) # <<>> /\ RunCoefficient(s, r) # One
           /\ \E r1, r2 \in SegmentRuns(s) :
                 /\ r1 # r2
                 /\ RunBody(s, r1) # <<>>
                 /\ RunBody(s, r2) # <<>>
                 /\ DOMAIN _parseCore(RunBody(s, r1)).value
                      \cap DOMAIN _parseCore(RunBody(s, r2)).value # {}

\* A candidate symbol of s that no failure precedes: the tokens before it
\* are opening brackets and symbols of the catalog
FirstFailureIsSymbol(s, p) ==
    /\ p \in ElementTokens(s)
    /\ SymbolAt(s, p) \notin ELEMENT_SYMBOLS
    /\ \A q \in TokenStarts(s, 0) :
          q < p => \/ s[q + 1] \in OPENING
                   \/ s[q + 1] \in UPPER /\ SymbolAt(s, q) \in ELEMENT_SYMBOLS

\* Every key of the returned map is in the catalog
KeysInCatalog(m) == \A k \in DOMAIN m : k \in ELEMENT_SYMBOLS

\* C5 as stated: every key of every map parse returns, and therefore diff
\* returns, is in the element catalog and every quantity is non-negative.
C5_KeysAndNonNegative ==
    (op \in {"parse", "diff"} /\ ~out.raised) =>
        /\ KeysInCatalog(out.value)
        /\ \A k \in DOMAIN out.value : out.value[k][1] >= 0

\* C5 amended: every key of every map parse or diff returns is in the
\* element catalog and every quantity parse returns is non-negative (an
\* entry of diff is a difference and may be negative); an uppercase letter
\* with the lowercase letters after it is one candidate symbol, and a
\* candidate outside the catalog makes the scan fail with an unknown-symbol
\* error, so parse returns only when every candidate is in the catalog;
\* validate("Xx2O") is false.
C5_CatalogKeys ==
    /\ (op \in {"parse", "diff"} /\ ~out.raised) => KeysInCatalog(out.value)
    /\ (op = "parse" /\ ~out.raised) =>
          \A k \in DOMAIN out.value : out.value[k][1] >= 0
    /\ (op = "parse" /\ a.isString /\ ~out.raised) =>
          \A s \in Segments(a.chars) : \A p \in ElementTokens(s) :
              SymbolAt(s, p) \in ELEMENT_SYMBOLS
    /\ (op = "_parseCore" /\ \E p \in ElementTokens(segment) :
                                FirstFailureIsSymbol(segment, p)) =>
          out.raised /\ out.error = "UnknownElementSymbol"
    /\ (op = "validate" /\ a = Text(F_Xx2O)) => out.value = FALSE

\* C5 witness: the scan has met, after another token, a candidate of two
\* letters that is not in the catalog, and has failed
C5_Witness ==
    /\ op = "_parseCore"
    /\ out.raised
    /\ out.error = "UnknownElementSymbol"
    /\ \E p \in ElementTokens(segment) :
          /\ p > 0
          /\ FirstFailureIsSymbol(segment, p)
          /\ SymbolEnd(segment, p) > p + 1

\* C6: validate and compare never raise, whatever the arguments, a
\* non-text argument included: validate returns true exactly when parse
\* completes, compare returns false when parse raises on either argument;
\* diff and parse raise the failure and return no partial result.
C6_ValidateCompareNeverRaise ==
    /\ op = "validate" =>
          ~out.raised /\ out.value = ~parse(a).raised
    /\ op = "compare" =>
          /\ ~out.raised
          /\ (parse(a).raised \/ parse(b).raised) => out.value = FALSE
    /\ op = "diff" =>
          /\ out.raised <=> (parse(a).raised \/ parse(b).raised)
          /\ out.raised =>
                /\ out.value = EmptyMap
                /\ out.error = IF parse(a).raised THEN parse(a).error
                               ELSE parse(b).error
    /\ (op = "parse" /\ ~a.isString) =>
          out.raised /\ out.error = "TypeError" /\ out.value = EmptyMap
    /\ (op = "parse" /\ out.raised) => out.value = EmptyMap

\* C6 witness: compare has returned false for a formula parse accepts and
\* an argument that is no text
C6_Witness ==
    /\ op = "compare"
    /\ ~parse(a).raised
    /\ DOMAIN parse(a).value # {}
    /\ ~b.isString
    /\ ~out.raised
    /\ out.value = FALSE

\* The text of the element token of s at p: the symbol and its literal
TokenText(s, p) ==
    SubSeq(s, p + 1,
           SymbolEnd(s, p) + NUMBER_REGEX(SubSeq(s, SymbolEnd(s, p) + 1, Len(s))))

\* s is made of element tokens (a symbol, then maybe a literal) only
IsFlat(s) ==
    /\ TokenStarts(s, 0) = ElementTokens(s)
    /\ s # <<>> => \E p \in ElementTokens(s) :
                      p + Len(TokenText(s, p)) = Len(s)

\* t is made of the element tokens of s in some order
IsReordering(s, t) ==
    /\ IsFlat(s)
    /\ IsFlat(t)
    /\ Cardinality(ElementTokens(s)) = Cardinality(ElementTokens(t))
    /\ \A p \in ElementTokens(s) :
          Cardinality({q \in ElementTokens(s) : TokenText(s, q) = TokenText(s, p)})
            = Cardinality({q \in ElementTokens(t) : TokenText(t, q) = TokenText(s, p)})

\* C7: for two valid formulas of which the second is a reordering of the
\* element-with-count tokens of the first, compare returns true;
\* compare("H2O", "OH2") is true.
C7_CompareIgnoresTokenOrder ==
    /\ (/\ op = "compare"
        /\ a.isString
        /\ b.isString
        /\ ~parse(a).raised
        /\ ~parse(b).raised
        /\ IsReordering(a.chars, b.chars)) => out.value = TRUE
    /\ (op = "compare" /\ a = Text(F_H2O) /\ b = Text(F_OH2)) =>
          out.value = TRUE

\* C8: compare(a, b) returns the same boolean as compare(b, a), for valid
\* and for invalid arguments.
C8_CompareSymmetric ==
    op = "compare" => ~out.raised /\ out.value = compare(b, a).value

\* C8 witness: compare has returned false for two formulas parse accepts,
\* the elements of the first being some but not all of those of the second
\* and their quantities the same
C8_Witness ==
    /\ op = "compare"
    /\ ~parse(a).raised
    /\ ~parse(b).raised
    /\ DOMAIN parse(a).value # {}
    /\ DOMAIN parse(a).value \subseteq DOMAIN parse(b).value
    /\ DOMAIN parse(a).value # DOMAIN parse(b).value
    /\ \A k \in DOMAIN parse(a).value : parse(a).value[k] = parse(b).value[k]
    /\ out.value = FALSE

\* C9: for two valid formulas the keys of diff(a, b) are the keys of
\* parse(a) and those of parse(b), each entry is the quantity in parse(a)
\* minus that in parse(b), a missing key counting 0, and an entry that is 0
\* is kept.
C9_DiffOverKeyUnion ==
    (op = "diff" /\ ~parse(a).raised /\ ~parse(b).raised) =>
        LET pa == parse(a).value
            pb == parse(b).value
        IN  /\ ~out.raised
            /\ \A k \in DOMAIN pa \cup DOMAIN pb : k \in DOMAIN out.value
            /\ \A k \in DOMAIN out.value :
                  /\ k \in DOMAIN pa \/ k \in DOMAIN pb
                  /\ RAdd(out.value[k], Get(pb, k)) = Get(pa, k)
            /\ \A k \in DOMAIN pa \cap DOMAIN pb :
                  pa[k] = pb[k] => out.value[k] = Zero

\* C9 witness: diff has returned a map with an entry that is 0, an entry
\* below 0 and an entry for an element only the second formula has
C9_Witness ==
    /\ op = "diff"
    /\ ~out.raised
    /\ \E k \in DOMAIN out.value : out.value[k] = Zero
    /\ \E k \in DOMAIN out.value : out.value[k][1] < 0
    /\ \E k \in DOMAIN out.value : k \notin DOMAIN parse(a).value

\* The number of characters at the end of s that are superscript digits
\* or superscript signs
RECURSIVE SuperscriptRun(_)
SuperscriptRun(s) ==
    IF s # <<>> /\ s[Len(s)] \in DOMAIN SUPERSCRIPT_MAP
    THEN 1 + SuperscriptRun(SubSeq(s, 1, Len(s) - 1))
    ELSE 0

\* The run at the end of s maps to digits, maybe none, and then a sign
IsSuperscriptCharge(s) ==
    LET n == SuperscriptRun(s)
        m == MapSuperscripts(SubSeq(s, Len(s) - n + 1, Len(s)))
    IN  /\ n > 0
        /\ m[n] \in {"+", "-"}
        /\ \A i \in 1..(n - 1) : m[i] \in DIGITS

\* The charge the run at the end of s denotes
SuperscriptChargeValue(s) ==
    LET n == SuperscriptRun(s)
        m == MapSuperscripts(SubSeq(s, Len(s) - n + 1, Len(s)))
        k == IF n > 1 THEN DigitsValue(SubSeq(m, 1, n - 1)) ELSE 1
    IN  IF m[n] = "+" THEN k ELSE -k

\* C10: when the formula ends in a run of superscript digits and signs that
\* maps to digits-then-sign, the whole run is the charge annotation: the
\* charge is the mapped digits (1 when none) with the mapped sign, the whole
\* run is removed, and the rest parses as usual; "SO4(sup2)(sup-)" is valid
\* with charge -2 and quantities {S:1, O:4}.
C10_SuperscriptRunIsCharge ==
    (op = "parse" /\ a.isString /\ IsSuperscriptCharge(Normalize(a.chars))) =>
        LET s    == Normalize(a.chars)
            rest == SubSeq(s, 1, Len(s) - SuperscriptRun(s))
        IN  /\ ExtractCharge(s).charge = <<SuperscriptChargeValue(s)>>
            /\ ExtractCharge(s).mainFormula = rest
            /\ out = MergeParts(Parts(rest), 1, EmptyMap)
            /\ a.chars = F_SO4sup =>
                  /\ ExtractCharge(s).charge = <<-2>>
                  /\ ~out.raised
                  /\ out.value = [k \in {"S", "O"} |->
                                     IF k = "S" THEN <<1, 1>> ELSE <<4, 1>>]

\* The caret matcher accepts a suffix of s: the first alternative of
\* CHARGE_REGEX is the one that matched
CaretAccepted(s) == CHARGE_REGEX(s).matched /\ CHARGE_REGEX(s).g2 # <<>>

\* The digits between the caret of the accepted suffix and the final sign
CaretDigits(s) ==
    SelectSeq(SubSeq(s, CHARGE_REGEX(s).index + 2, Len(s) - 1),
              LAMBDA c : c \in DIGITS)

\* The charge the accepted suffix denotes: the digits as a decimal integer,
\* 1 when there are none, with the sign of the final character
CaretChargeValue(s) ==
    IF s[Len(s)] = "+"
    THEN (IF CaretDigits(s) = <<>> THEN 1 ELSE DigitsValue(CaretDigits(s)))
    ELSE -(IF CaretDigits(s) = <<>> THEN 1 ELSE DigitsValue(CaretDigits(s)))

\* C11: for every suffix the caret matcher accepts, the extracted charge is
\* the digits between the caret and the final sign read as a decimal integer
\* (1 when there are none), positive when the suffix ends in "+" and negative
\* when it ends in "-".
C11_CaretMagnitudeAndSign ==
    (op = "parse" /\ a.isString /\ CaretAccepted(Normalize(a.chars))) =>
        ExtractCharge(Normalize(a.chars)).charge =
            <<CaretChargeValue(Normalize(a.chars))>>

\* C12: the charge extraction never produces an explicit zero: for every
\* formula the extracted charge is absent or a number other than 0.
C12_NoZeroCharge ==
    (op = "parse" /\ a.isString) =>
        \/ ExtractCharge(Normalize(a.chars)).charge = <<>>
        \/ ExtractCharge(Normalize(a.chars)).charge[1] # 0

\* The non-caret matcher matched a run at the end of s
RunMatched(s) == CHARGE_REGEX(s).matched /\ CHARGE_REGEX(s).g3 # <<>>

\* The run maps to digits, maybe none, and then a sign
ReducesToCharge(run) ==
    /\ MapSuperscripts(run) # <<>>
    /\ MapSuperscripts(run)[Len(MapSuperscripts(run))] \in {"+", "-"}
    /\ \A i \in 1..(Len(MapSuperscripts(run)) - 1) :
          MapSuperscripts(run)[i] \in DIGITS

\* C13: when the run the non-caret matcher matched does not reduce to
\* digits-then-sign, no charge is extracted, the run stays in the string that
\* goes on to the split and parse fails; the formula is shortened only when
\* a charge was extracted; "H2O(sup+)(sup-)" is rejected.
C13_InvalidRunStays ==
    (op = "parse" /\ a.isString) =>
        /\ (/\ RunMatched(Normalize(a.chars))
            /\ ~ReducesToCharge(CHARGE_REGEX(Normalize(a.chars)).g3)) =>
              /\ ExtractCharge(Normalize(a.chars)).charge = <<>>
              /\ ExtractCharge(Normalize(a.chars)).mainFormula =
                    Normalize(a.chars)
              /\ out.raised
        /\ ExtractCharge(Normalize(a.chars)).mainFormula # Normalize(a.chars) =>
              ExtractCharge(Normalize(a.chars)).charge # <<>>
        /\ a.chars = F_H2Osigns => out.raised

\* The number of characters among the first i of s that are in the set K
CountIn(s, i, K) == Cardinality({p \in 1..i : s[p] \in K})

\* The closing brackets the scan has consumed in state st: those before
\* i, but for the one the scan has just rejected
ClosingConsumed(s, st) ==
    CountIn(s, st.i, CLOSING)
        - (IF st.error = "UnmatchedClosingBracket" THEN 1 ELSE 0)

\* s with every bracket replaced by the round bracket of its direction
UniformBrackets(s) ==
    [i \in 1..Len(s) |->
        IF s[i] \in OPENING THEN "(" ELSE IF s[i] \in CLOSING THEN ")" ELSE s[i]]

\* C14: throughout the scan of a segment the depth of the stack is 1 plus
\* the opening brackets consumed minus the closing brackets consumed and
\* never below 1; any closing kind closes any opening kind; the scan returns
\* a map only if the depth is 1 at the end of the segment and fails with the
\* unmatched-opening-bracket error otherwise; validate("Ca(OH2") is false.
C14_StackDepth ==
    /\ op = "_parseCore" =>
          /\ \A n \in 0..Len(segment) :
                /\ Len(ScanAfter(segment, n).stack) >= 1
                /\ Len(ScanAfter(segment, n).stack) =
                      1 + CountIn(segment, ScanAfter(segment, n).i, OPENING)
                        - ClosingConsumed(segment, ScanAfter(segment, n))
          /\ out = _parseCore(UniformBrackets(segment))
          /\ ~out.raised => Len(ScanAfter(segment, Len(segment)).stack) = 1
          /\ (/\ ScanAfter(segment, Len(segment)).error = "none"
              /\ Len(ScanAfter(segment, Len(segment)).stack) # 1) =>
                (out.raised /\ out.error = "UnmatchedOpeningBracket")
    /\ (op = "validate" /\ a.chars = F_CaOH2open) => out.value = FALSE

\* C14 witness: _parseCore has returned a map for a segment whose scan went
\* to depth 3 and came back to 1, a bracket closed by one of another kind
C14_Witness ==
    /\ op = "_parseCore"
    /\ ~out.raised
    /\ segment # UniformBrackets(segment)
    /\ \E n \in 0..Len(segment) : Len(ScanAfter(segment, n).stack) = 3
    /\ \E p \in 1..Len(segment) :
          /\ segment[p] = "("
          /\ Closers(segment, p - 1) # {}
          /\ segment[CloseOf(segment, p - 1) + 1] = "]"

\* The scan of s meets, in state st, a closing bracket while the depth is 1
ClosingAtDepthOne(s, st) ==
    /\ st.error = "none"
    /\ st.i < Len(s)
    /\ s[st.i + 1] \in CLOSING
    /\ Len(st.stack) = 1

\* C15: a closing bracket met while the depth of the stack is 1 makes
\* _parseCore fail with the unmatched-closing-bracket error, and the position
\* the error reports is the index of that bracket in the segment, whether or
\* not a multiplier follows the bracket; validate("Ca(OH)2]") is false.
C15_UnmatchedClosingPosition ==
    /\ op = "_parseCore" =>
          \A n \in 0..Len(segment) :
              ClosingAtDepthOne(segment, ScanAfter(segment, n)) =>
                  /\ out.raised
                  /\ out.error = "UnmatchedClosingBracket"
                  /\ out.pos = ScanAfter(segment, n).i
    /\ (op = "validate" /\ a.chars = F_CaOH2close) => out.value = FALSE

====
